---- MODULE Spec2Model ----
(***************************************************************************)
(* A model of the fusion reconciler (fusion-wasm/src/lib.rs, src/fiber.rs): *)
(* the fiber arena, render, work_loop, perform_unit_of_work,                *)
(* reconcile_children, commit_root / commit_work and the host (DOM) calls   *)
(* they make.                                                               *)
(*                                                                         *)
(* Option<T> is modelled as a sequence: <<>> is None, <<x>> is Some(x).     *)
(* Option<FiberCell> and Option<Rc<RefCell<Node>>> are ids into the fiber   *)
(* arena / the host-node arena, with 0 for None.                            *)
(***************************************************************************)
EXTENDS Integers, Sequences, FiniteSets, TLC

\* ------------------------------------------------------------------ bounds
\* Largest virtual tree (number of virtual nodes) a render call is given.
MaxNodes == 4
\* Capacity of the fiber arena: a render is only started when its fibers fit.
MaxFibers == 8
\* The host fails at most this many append_child calls in a run.
MaxFailures == 1

\* --------------------------------------------------------------- constants
None == 0
TEXT_ELEMENT == "TEXT_ELEMENT"
FIBER_ROOT == "ROOT"
FIBER_FUNCTIONAL == "FUNCTIONAL"

\* ------------------------------------------------------------ virtual tree
\* ElementProps: the two fields the reconciler reads, each an Option<String>.
Props(class_name, node_value) ==
    [class_name |-> class_name, node_value |-> node_value]

\* Element: type, Option<ElementProps>, children (a missing child vector and
\* an empty one both have length 0 and are both modelled as <<>>).
Element(type, props, children) ==
    [type |-> type, props |-> props, children |-> children]

DivA == Element("div", <<Props(<<"a">>, <<>>)>>, <<>>)
TextA == Element(TEXT_ELEMENT, <<Props(<<>>, <<"A">>)>>, <<>>)

\* Leaves that vary the attributes: class changed / absent, text changed /
\* absent, no attributes at all.
PropLeaves ==
    { Element("div", <<Props(<<"b">>, <<>>)>>, <<>>),
      Element("div", <<Props(<<>>, <<>>)>>, <<>>),
      Element("div", <<>>, <<>>),
      Element(TEXT_ELEMENT, <<Props(<<>>, <<"B">>)>>, <<>>),
      Element(TEXT_ELEMENT, <<Props(<<>>, <<>>)>>, <<>>) }

\* Text elements are leaves: only elements are given children.
TagLeaves == {DivA, TextA}

RECURSIVE Size(_), SizeAll(_)
Size(e) == 1 + SizeAll(e.children)
SizeAll(es) == IF es = <<>> THEN 0 ELSE Size(Head(es)) + SizeAll(Tail(es))

\* Every ordered tree of at most m nodes, all of them <div class=a>.
RECURSIVE TreesOf(_), ForestsOf(_)
TreesOf(m) ==
    IF m = 0 THEN {}
    ELSE { Element("div", <<Props(<<"a">>, <<>>)>>, f) : f \in ForestsOf(m - 1) }
ForestsOf(m) ==
    {<<>>} \cup
    UNION { { <<t>> \o f : f \in ForestsOf(m - Size(t)) } : t \in TreesOf(m) }

\* Every sequence of at most n leaves, each <div class=a> or the text "A".
RECURSIVE LeafSeqs(_)
LeafSeqs(n) ==
    IF n = 0 THEN {<<>>}
    ELSE LeafSeqs(n - 1) \cup
         { Append(ls, l) : ls \in LeafSeqs(n - 1), l \in TagLeaves }

\* The flat trees of at most m nodes: a leaf, or a <div> over leaves.
FlatTrees(m) ==
    TagLeaves \cup
    { Element("div", <<Props(<<"a">>, <<>>)>>, ls) : ls \in LeafSeqs(m - 1) }

\* The attribute-varying leaves, each as the only child of a <div>.
PropTrees ==
    { Element("div", <<Props(<<"a">>, <<>>)>>, <<l>>) : l \in PropLeaves }

\* Which append_child of a work_loop call the host fails (0: none of them).
FailAt == {0, 1, 2}

VTrees == TreesOf(MaxNodes) \cup FlatTrees(MaxNodes) \cup PropTrees

\* ------------------------------------------------------------------- state
VARIABLES
    fibers,             \* the fiber arena: id -> Fiber
    dom,                \* the host nodes: id -> Node (id 1 is the container)
    wip_root,           \* Context.wip_root
    current_root,       \* Context.current_root
    next_unit_of_work,  \* Context.next_unit_of_work
    status,             \* "ok", or "panicked" once a call has panicked
    result,             \* what the last Context::work_loop returned
    trace,              \* the fibers visited and host calls made since the last render
    failures,           \* how many append_child calls have failed so far
    vtree,              \* the element given to the last render
    committed_vtree,    \* the element the committed tree was rendered from
    baseline_vtree,     \* committed_vtree as it was when the last render began
    baseline_root,      \* current_root as it was when the last render began
    abandoned,          \* the fibers of passes a later render replaced uncommitted
    returned,           \* what the last exported call gave its caller
    pass_start,         \* the Context and the arenas as the last render left them
    paused              \* a work_loop call with did_timeout set came since the last render

vars == <<fibers, dom, wip_root, current_root, next_unit_of_work, status,
          result, trace, failures, vtree, committed_vtree, baseline_vtree, baseline_root,
          abandoned, returned, pass_start, paused>>

\* ------------------------------------------------------------------ fibers
NewFiber(type) ==
    [type |-> type, props |-> <<>>, element_children |-> <<>>, dom_node |-> None,
     alternate |-> None, parent |-> None, sibling |-> None, child |-> None,
     effect_tag |-> "None"]

is_functional_tree(fiber) == fiber.type = FIBER_FUNCTIONAL
is_text_fiber(fiber) == fiber.type = TEXT_ELEMENT

Container == 1
ContainerNode ==
    [kind |-> "Element", tag |-> "container", class_name |-> <<>>,
     node_value |-> <<>>, children |-> <<>>, parent |-> None]

\* The state the operators below transform: the Context, the two arenas, the
\* trace, and the outcome of the call so far (panicked: a Rust panic; err: an
\* Err travelling up through `?`; fail_in: which append_child is to fail;
\* ret: the value perform_unit_of_work returned).
Ctx(fail_at) ==
    [fibers |-> fibers, dom |-> dom, wip_root |-> wip_root,
     current_root |-> current_root, next_unit_of_work |-> next_unit_of_work,
     trace |-> trace, panicked |-> FALSE, err |-> FALSE, fail_in |-> fail_at,
     ret |-> None]

Init ==
    /\ fibers = <<>>
    /\ dom = <<ContainerNode>>
    /\ wip_root = None
    /\ current_root = None
    /\ next_unit_of_work = None
    /\ status = "ok"
    /\ result = "none"
    /\ trace = <<>>
    /\ failures = 0
    /\ vtree = <<>>
    /\ committed_vtree = <<>>
    /\ baseline_vtree = <<>>
    /\ baseline_root = None
    /\ abandoned = {}
    /\ returned = "none"
    /\ pass_start = Ctx(0)
    /\ paused = FALSE

\* F applied to the value of v, with v evaluated a single time.
Once(v, F(_)) == CHOOSE r \in { F(x) : x \in {v} } : TRUE

Ev(op, fiber, node, parent, value) ==
    [op |-> op, fiber |-> fiber, node |-> node, parent |-> parent, value |-> value]

Log(S_in, ev) ==
    Once(S_in, LAMBDA S :
        [S EXCEPT !.trace = Append(@, ev)])

Panic(S_in) ==
    Once(S_in, LAMBDA S :
        [S EXCEPT !.panicked = TRUE])

\* ------------------------------------------------------------- host calls
\* Document::create_text_node / create_element: a new, unattached host node.
create_text_node(S_in, f, value) ==
    Once(S_in, LAMBDA S :
        LET node == [kind |-> "Text", tag |-> "#text", class_name |-> <<>>,
                     node_value |-> <<value>>, children |-> <<>>, parent |-> None]
        IN  Log([S EXCEPT !.dom = Append(@, node)],
                Ev("createTextNode", f, Len(S.dom) + 1, None, value)))

create_element(S_in, f, tag) ==
    Once(S_in, LAMBDA S :
        LET node == [kind |-> "Element", tag |-> tag, class_name |-> <<>>,
                     node_value |-> <<>>, children |-> <<>>, parent |-> None]
        IN  Log([S EXCEPT !.dom = Append(@, node)],
                Ev("createElement", f, Len(S.dom) + 1, None, tag)))

set_class_name(S_in, f, n, value) ==
    Once(S_in, LAMBDA S :
        Log([S EXCEPT !.dom[n].class_name = <<value>>],
            Ev("setClassName", f, n, S.dom[n].parent, value)))

set_node_value(S_in, f, n, value) ==
    Once(S_in, LAMBDA S :
        Log([S EXCEPT !.dom[n].node_value = <<value>>],
            Ev("setNodeValue", f, n, S.dom[n].parent, value)))

Without(seq, x) == SelectSeq(seq, LAMBDA y : y # x)

\* Node::append_child: the child leaves the parent it had, if any, and becomes
\* the last child of `parent`; or the call fails and changes nothing.
append_child(S_in, f, parent, child) ==
    Once(S_in, LAMBDA S :
        IF S.fail_in = 1
        THEN Log([S EXCEPT !.err = TRUE, !.fail_in = 0],
                 Ev("appendChildFailed", f, child, parent, ""))
        ELSE LET old == S.dom[child].parent
                 d1 == IF old = None THEN S.dom
                       ELSE [S.dom EXCEPT ![old].children = Without(@, child)]
                 d2 == [d1 EXCEPT ![parent].children = Append(@, child),
                                  ![child].parent = parent]
             IN  Log([S EXCEPT !.dom = d2,
                               !.fail_in = IF @ > 1 THEN @ - 1 ELSE @],
                     Ev("appendChild", f, child, parent, "")))

\* ------------------------------------------------------- render traversal
\* A patch that sets the class whenever the new props have one.
update_dom_node_NoCompare(S_in, f, dom_node, prev_props, next_props) ==
    Once(S_in, LAMBDA S :
        IF next_props.class_name # <<>>
        THEN set_class_name(S, f, dom_node, next_props.class_name[1])
        ELSE S)

\* update_dom_node: prev_props is an Option<&ElementProps>, next_props is not.
update_dom_node(S_in, f, dom_node, prev_props, next_props) ==
    Once(S_in, LAMBDA S :
        LET prev_class_name == IF prev_props = <<>> THEN <<>> ELSE prev_props[1].class_name
            next_class_name == next_props.class_name
        IN  IF prev_class_name # <<>> /\ next_class_name # <<>>
            THEN IF prev_class_name[1] # next_class_name[1]
                 THEN set_class_name(S, f, dom_node, next_class_name[1])
                 ELSE S
            ELSE IF prev_class_name = <<>> /\ next_class_name # <<>>
                 THEN set_class_name(S, f, dom_node, next_class_name[1])
                 ELSE S)

update_dom_text(S_in, f, text_node, prev_props, next_props) ==
    Once(S_in, LAMBDA S :
        LET prev_value == IF prev_props = <<>> THEN <<>> ELSE prev_props[1].node_value
            next_value == next_props.node_value
        IN  IF prev_value # <<>> /\ next_value # <<>>
            THEN IF prev_value[1] # next_value[1]
                 THEN set_node_value(S, f, text_node, next_value[1])
                 ELSE S
            ELSE IF prev_value = <<>> /\ next_value # <<>>
                 THEN set_node_value(S, f, text_node, next_value[1])
                 ELSE S)

\* create_dom_node, element branch: create_element, then update_dom_node
\* with no previous props on the node just made.
CreateElementNode(S1_in, f, props) ==
    Once(S1_in, LAMBDA S1 :
        update_dom_node(S1, f, Len(S1.dom), <<>>, props))

\* create_dom_node: the new node is the last one of S.dom; the two unwrap()
\* calls panic on a fiber without props and on a text fiber without a value.
create_dom_node(S_in, f) ==
    Once(S_in, LAMBDA S :
        LET fiber == S.fibers[f] IN
        IF fiber.props = <<>> THEN Panic(S)
        ELSE IF is_text_fiber(fiber)
             THEN IF fiber.props[1].node_value = <<>> THEN Panic(S)
                  ELSE create_text_node(S, f, fiber.props[1].node_value[1])
             ELSE CreateElementNode(create_element(S, f, fiber.type), f, fiber.props[1]))

\* A reconciler that pairs children by position alone, whatever their types.
has_same_type_AnyOld(fs, old_child_fiber, child_element) ==
    old_child_fiber # None

\* has_same_type: an old child exists and has the new child's type.
has_same_type(fs, old_child_fiber, child_element) ==
    IF old_child_fiber # None
    THEN fs[old_child_fiber].type = child_element.type
    ELSE FALSE

\* A reconciler whose Update fibers do not take over the old host node.
ChildFiber_NoInherit(fs, w, child_element, old_child_fiber, same_type) ==
    [NewFiber(child_element.type) EXCEPT
        !.props = child_element.props,
        !.element_children = child_element.children,
        !.alternate = IF same_type THEN old_child_fiber ELSE None,
        !.parent = w,
        !.effect_tag = IF same_type THEN "Update" ELSE "Placement"]

\* The fiber reconcile_children makes for child_element under the fiber w:
\* an Update over the old child when the types agree, else a Placement.
ChildFiber(fs, w, child_element, old_child_fiber, same_type) ==
    IF same_type
    THEN [NewFiber(fs[old_child_fiber].type) EXCEPT
            !.props = child_element.props,
            !.element_children = child_element.children,
            !.alternate = old_child_fiber,
            !.dom_node = fs[old_child_fiber].dom_node,
            !.parent = w,
            !.effect_tag = "Update"]
    ELSE [NewFiber(child_element.type) EXCEPT
            !.props = child_element.props,
            !.element_children = child_element.children,
            !.parent = w,
            !.effect_tag = "Placement"]

\* A reconciler that also takes the host node away from the old child.
TagDeletion_DropsNode(S_in, old_child_fiber, same_type) ==
    Once(S_in, LAMBDA S :
        IF old_child_fiber # None /\ ~same_type
        THEN Log([S EXCEPT !.fibers[old_child_fiber].effect_tag = "Deletion",
                           !.fibers[old_child_fiber].dom_node = None],
                 Ev("tagDeletion", old_child_fiber, None, None, ""))
        ELSE S)

\* set_effect(Deletion) on an old child whose type differs.
TagDeletion(S_in, old_child_fiber, same_type) ==
    Once(S_in, LAMBDA S :
        IF old_child_fiber # None /\ ~same_type
        THEN Log([S EXCEPT !.fibers[old_child_fiber].effect_tag = "Deletion"],
                 Ev("tagDeletion", old_child_fiber, None, None, ""))
        ELSE S)

\* The new fiber enters the arena and, unless it is the first child, becomes
\* the sibling of the one before it.
LinkChild(S_in, i, previous_sibling, child_fiber) ==
    Once(S_in, LAMBDA S :
        IF i # 0 /\ previous_sibling # None
        THEN [S EXCEPT !.fibers = Append(@, child_fiber),
                       !.fibers[previous_sibling].sibling = Len(S.fibers) + 1]
        ELSE [S EXCEPT !.fibers = Append(@, child_fiber)])

\* One turn of the loop of reconcile_children, for the child at index i
\* (0-based, as in the code) of the fiber w being reconciled; props_mut().take()
\* and children_mut().take() leave the element without props and children.
ReconcileChild(S_in, w, i, previous_sibling, old_child_fiber) ==
    Once(S_in, LAMBDA S :
        LET child_element == S.fibers[w].element_children[i + 1]
            same_type == has_same_type(S.fibers, old_child_fiber, child_element)
        IN  LinkChild(
                TagDeletion(
                    [S EXCEPT !.fibers[w].element_children[i + 1].props = <<>>,
                              !.fibers[w].element_children[i + 1].children = <<>>],
                    old_child_fiber, same_type),
                i, previous_sibling,
                ChildFiber(S.fibers, w, child_element, old_child_fiber, same_type)))

\* A loop that forgets the i == 0 test and keeps the last child as the first.
FirstChild_Last(i, id, first_child_fiber) == id

\* first_child_fiber after the turn for index i, which made the fiber `id`.
FirstChild(i, id, first_child_fiber) ==
    IF i = 0 THEN id ELSE first_child_fiber

\* fiber.set_child(first_child_fiber) once the loop is over.
SetChild(S_in, w, first_child_fiber) ==
    Once(S_in, LAMBDA S :
        Log(IF first_child_fiber # None
            THEN [S EXCEPT !.fibers[w].child = first_child_fiber]
            ELSE S,
            Ev("reconciled", w, None, None, "")))

RECURSIVE ReconcileLoop(_, _, _, _, _, _)
ReconcileLoop(S_in, w, i, previous_sibling, first_child_fiber, old_child_fiber) ==
    Once(S_in, LAMBDA S :
        IF i < Len(S.fibers[w].element_children) \/ old_child_fiber # None
        THEN \* children.unwrap().borrow_mut()[i] panics beyond the end of the list
             IF i >= Len(S.fibers[w].element_children) THEN Panic(S)
             ELSE ReconcileLoop(
                      ReconcileChild(S, w, i, previous_sibling, old_child_fiber),
                      w, i + 1, Len(S.fibers) + 1,
                      FirstChild(i, Len(S.fibers) + 1, first_child_fiber),
                      IF old_child_fiber # None
                      THEN S.fibers[old_child_fiber].sibling
                      ELSE None)
        ELSE SetChild(S, w, first_child_fiber))

reconcile_children(S_in, w) ==
    Once(S_in, LAMBDA S :
        ReconcileLoop(S, w, 0, None, None,
                      IF S.fibers[w].alternate # None
                      THEN S.fibers[S.fibers[w].alternate].child
                      ELSE None))

\* FiberParentsIter, searched for the first parent with a sibling.
RECURSIVE ParentSibling(_, _)
ParentSibling(fs, f) ==
    IF fs[f].parent = None THEN None
    ELSE IF fs[fs[f].parent].sibling # None THEN fs[fs[f].parent].sibling
    ELSE ParentSibling(fs, fs[f].parent)

\* A traversal that prefers the sibling to the child.
NextUnit_SiblingFirst(fs, w) ==
    IF fs[w].sibling # None THEN fs[w].sibling
    ELSE IF fs[w].child # None THEN fs[w].child
    ELSE ParentSibling(fs, w)

\* The fiber perform_unit_of_work returns once fiber w is done.
NextUnit(fs, w) ==
    IF fs[w].child # None THEN fs[w].child
    ELSE IF fs[w].sibling # None THEN fs[w].sibling
    ELSE ParentSibling(fs, w)

\* fiber.set_dom_node(..) with the node create_dom_node has just made.
SetDomNode(C_in, w) ==
    Once(C_in, LAMBDA C :
        IF C.panicked THEN C ELSE [C EXCEPT !.fibers[w].dom_node = Len(C.dom)])

\* A traversal that patches the class of an inherited host node at once.
EnsureDomNode_PatchInherited(S_in, w) ==
    Once(S_in, LAMBDA S :
        IF S.fibers[w].dom_node = None THEN SetDomNode(create_dom_node(S, w), w)
        ELSE IF /\ S.fibers[w].alternate # None
                /\ S.fibers[w].props # <<>>
                /\ ~is_text_fiber(S.fibers[w])
             THEN update_dom_node(S, w, S.fibers[w].dom_node,
                                  S.fibers[S.fibers[w].alternate].props,
                                  S.fibers[w].props[1])
             ELSE S)

\* perform_unit_of_work: a fiber without a host node gets one.
EnsureDomNode(S_in, w) ==
    Once(S_in, LAMBDA S :
        IF S.fibers[w].dom_node = None THEN SetDomNode(create_dom_node(S, w), w) ELSE S)

ReconcileUnit(S_in, w) ==
    Once(S_in, LAMBDA S :
        IF S.panicked THEN S ELSE reconcile_children(S, w))

ReturnUnit(S_in, w) ==
    Once(S_in, LAMBDA S :
        IF S.panicked THEN S ELSE [S EXCEPT !.ret = NextUnit(S.fibers, w)])

Visit(S_in) ==
    Once(S_in, LAMBDA S :
        Log(S, Ev("visit", S.next_unit_of_work, None, None, "")))

\* perform_unit_of_work on S.next_unit_of_work; the fiber it returns is S.ret.
perform_unit_of_work(S_in) ==
    Once(S_in, LAMBDA S :
        IF is_functional_tree(S.fibers[S.next_unit_of_work]) THEN Panic(Visit(S))
        ELSE ReturnUnit(
                 ReconcileUnit(
                     EnsureDomNode(Visit(S), S.next_unit_of_work),
                     S.next_unit_of_work),
                 S.next_unit_of_work))

\* ------------------------------------------------------------------ commit
\* The first parent, walking up, that holds a host node (commit_work's loop).
RECURSIVE ParentDomNode(_, _)
ParentDomNode(fs, f) ==
    IF fs[f].parent = None THEN None
    ELSE IF fs[fs[f].parent].dom_node # None THEN fs[fs[f].parent].dom_node
    ELSE ParentDomNode(fs, fs[f].parent)

commit_node_append(S_in, f, parent_dom_node) ==
    Once(S_in, LAMBDA S :
        IF S.fibers[f].dom_node # None /\ parent_dom_node # None
        THEN IF S.dom[parent_dom_node].kind = "Element"
             THEN append_child(S, f, parent_dom_node, S.fibers[f].dom_node)
             ELSE S
        ELSE S)

\* The Update arm of commit_work; fiber.props().unwrap() panics without props.
CommitUpdate(S_in, f) ==
    Once(S_in, LAMBDA S :
        LET fiber == S.fibers[f] IN
        IF fiber.dom_node # None /\ fiber.alternate # None
        THEN IF fiber.props = <<>> THEN Panic(S)
             ELSE IF S.dom[fiber.dom_node].kind = "Element"
                  THEN update_dom_node(S, f, fiber.dom_node,
                                       S.fibers[fiber.alternate].props, fiber.props[1])
                  ELSE update_dom_text(S, f, fiber.dom_node,
                                       S.fibers[fiber.alternate].props, fiber.props[1])
        ELSE S)

\* The match on the effect tag in commit_work; the Deletion arm is empty.
CommitEffect(S_in, f) ==
    Once(S_in, LAMBDA S :
        IF S.fibers[f].effect_tag = "Placement"
        THEN commit_node_append(S, f, ParentDomNode(S.fibers, f))
        ELSE IF S.fibers[f].effect_tag = "Update" THEN CommitUpdate(S, f)
        ELSE S)

\* A commit that walks the siblings before the children.
RECURSIVE commit_work_SiblingFirst(_, _), SiblingFirstChild(_, _), SiblingFirstSibling(_, _)
SiblingFirstChild(S_in, f) ==
    Once(S_in, LAMBDA S :
        IF S.panicked \/ S.err THEN S
        ELSE commit_work_SiblingFirst(S, S.fibers[f].child))
SiblingFirstSibling(S_in, f) ==
    Once(S_in, LAMBDA S :
        IF S.panicked \/ S.err THEN S
        ELSE SiblingFirstChild(commit_work_SiblingFirst(S, S.fibers[f].sibling), f))
commit_work_SiblingFirst(S_in, f) ==
    Once(S_in, LAMBDA S :
        IF f = None THEN S ELSE SiblingFirstSibling(CommitEffect(S, f), f))

\* commit_work: the fiber's effect, then its child, then its sibling; an Err
\* or a panic ends the walk.
RECURSIVE commit_work(_, _), CommitChild(_, _), CommitSibling(_, _)
CommitSibling(S_in, f) ==
    Once(S_in, LAMBDA S :
        IF S.panicked \/ S.err THEN S
        ELSE commit_work(S, S.fibers[f].sibling))
CommitChild(S_in, f) ==
    Once(S_in, LAMBDA S :
        IF S.panicked \/ S.err THEN S
        ELSE CommitSibling(commit_work(S, S.fibers[f].child), f))
commit_work(S_in, f) ==
    Once(S_in, LAMBDA S :
        IF f = None THEN S ELSE CommitChild(CommitEffect(S, f), f))

\* A commit that leaves the root it committed as the next unit of work.
PromoteRoot_KeepsUnit(S_in, root) ==
    Once(S_in, LAMBDA S :
        IF S.panicked \/ S.err THEN S
        ELSE [S EXCEPT !.current_root = root, !.wip_root = None,
                       !.next_unit_of_work = root])

\* commit_root after commit_work: the wip root becomes the current root.
PromoteRoot(S_in, root) ==
    Once(S_in, LAMBDA S :
        IF S.panicked \/ S.err THEN S
        ELSE [S EXCEPT !.current_root = root, !.wip_root = None])

commit_root(S_in) ==
    Once(S_in, LAMBDA S :
        IF S.wip_root # None
        THEN PromoteRoot(
                 commit_work(Log(S, Ev("commit", S.wip_root, None, None, "")),
                             S.fibers[S.wip_root].child),
                 S.wip_root)
        ELSE S)

\* --------------------------------------------------------------- work loop
\* The loop of work_loop: next_unit_of_work = perform_unit_of_work() until
\* did_timeout or there is no next unit.
RECURSIVE WorkLoopUnits(_, _), AssignNext(_, _)
AssignNext(P_in, did_timeout) ==
    Once(P_in, LAMBDA P :
        IF P.panicked THEN P
        ELSE WorkLoopUnits([P EXCEPT !.next_unit_of_work = P.ret], did_timeout))
WorkLoopUnits(S_in, did_timeout) ==
    Once(S_in, LAMBDA S :
        IF did_timeout \/ S.next_unit_of_work = None THEN S
        ELSE AssignNext(perform_unit_of_work(S), did_timeout))

CommitAlways(S_in) ==
    Once(S_in, LAMBDA S :
        IF S.panicked THEN S
        ELSE IF S.wip_root # None THEN commit_root(S) ELSE S)

\* A work loop that commits whenever a work-in-progress root exists.
work_loop_CommitAlways(S, did_timeout) ==
    CommitAlways(WorkLoopUnits(S, did_timeout))

\* A work loop that, told to yield, loses the unit it was to resume from.
work_loop_YieldForgets(S_in, did_timeout) ==
    Once(S_in, LAMBDA S :
        IF did_timeout
        THEN CommitAlways([S EXCEPT !.next_unit_of_work = None])
        ELSE CommitAlways(WorkLoopUnits(S, did_timeout)))

\* if no_next_unit_of_work && self.wip_root.is_some() { self.commit_root()? }
CommitIfDone(S_in) ==
    Once(S_in, LAMBDA S :
        IF S.panicked THEN S
        ELSE IF S.next_unit_of_work = None /\ S.wip_root # None
             THEN commit_root(S)
             ELSE S)

\* Context::work_loop
work_loop(S, did_timeout) ==
    CommitIfDone(WorkLoopUnits(S, did_timeout))

\* ----------------------------------------------------------------- actions
\* render(context, element, container): a new root fiber over `element`. The
\* root an earlier render left unprocessed is referenced by nothing else and
\* is dropped with the two Context fields that held it.
\* A render that diffs against the unfinished tree of the pass it replaces.
RenderRoot_AlternateWip(element) ==
    [NewFiber(FIBER_ROOT) EXCEPT
        !.element_children = <<element>>,
        !.dom_node = Container,
        !.alternate = IF wip_root # None /\ fibers[wip_root].child # None
                      THEN wip_root ELSE current_root]

RenderRoot(element) ==
    [NewFiber(FIBER_ROOT) EXCEPT
        !.element_children = <<element>>,
        !.dom_node = Container,
        !.alternate = current_root]

Unprocessed(fs, root) ==
    root # None /\ root = Len(fs) /\ fs[root].child = None

\* The arena once the Context lets go of the root it held.
Kept ==
    IF Unprocessed(fibers, wip_root) /\ next_unit_of_work = wip_root
    THEN SubSeq(fibers, 1, Len(fibers) - 1)
    ELSE fibers

\* The fibers of the pass that render replaces, when that pass has not
\* committed: the tree under the wip_root the Context held.
RECURSIVE TreeFibers(_, _), ForestFibers(_, _)
TreeFibers(fs, f) == {f} \cup ForestFibers(fs, fs[f].child)
ForestFibers(fs, first) ==
    IF first = None THEN {}
    ELSE TreeFibers(fs, first) \cup ForestFibers(fs, fs[first].sibling)

Discarded ==
    IF wip_root # None /\ Kept = fibers THEN TreeFibers(fibers, wip_root) ELSE {}

Render(element) ==
    /\ status = "ok"
    /\ Len(Kept) + 1 + Size(element) <= MaxFibers
    /\ fibers' = Append(Kept, RenderRoot(element))
    /\ wip_root' = Len(Kept) + 1
    /\ next_unit_of_work' = Len(Kept) + 1
    /\ trace' = <<>>
    /\ vtree' = <<element>>
    /\ baseline_vtree' = committed_vtree
    /\ baseline_root' = current_root
    /\ result' = "none"
    /\ abandoned' = abandoned \cup Discarded
    /\ returned' = "Context"
    /\ pass_start' = [Ctx(0) EXCEPT !.fibers = Append(Kept, RenderRoot(element)),
                                    !.wip_root = Len(Kept) + 1,
                                    !.next_unit_of_work = Len(Kept) + 1,
                                    !.trace = <<>>]
    /\ paused' = FALSE
    /\ UNCHANGED <<dom, current_root, status, failures, committed_vtree>>

\* The exported work_loop: `context.work_loop(did_timeout); context`. The
\* Result of Context::work_loop is not looked at: the caller is handed the
\* Context, unless the call panicked.
exported_work_loop(S) ==
    IF S.panicked THEN "panic" ELSE "Context"

\* An exported work_loop that hands an Err of Context::work_loop on.
exported_work_loop_Propagate(S) ==
    IF S.panicked THEN "panic" ELSE IF S.err THEN "Err" ELSE "Context"

\* The Context and the host as the call leaves them.
Returned(S) ==
    /\ failures' = IF S.err THEN failures + 1 ELSE failures
    /\ fibers' = S.fibers
    /\ dom' = S.dom
    /\ wip_root' = S.wip_root
    /\ current_root' = S.current_root
    /\ next_unit_of_work' = S.next_unit_of_work
    /\ trace' = S.trace
    /\ status' = IF S.panicked THEN "panicked" ELSE "ok"
    /\ result' = IF S.panicked THEN "panic" ELSE IF S.err THEN "Err" ELSE "Ok"
    /\ committed_vtree' =
           IF wip_root # None /\ S.wip_root = None THEN vtree ELSE committed_vtree
    /\ returned' = exported_work_loop(S)
    /\ UNCHANGED <<vtree, baseline_vtree, baseline_root, abandoned, pass_start>>

\* work_loop(context, did_timeout), with the host told which append_child of
\* this call, if any, fails (fail_at = 0: none).
WorkLoop(did_timeout, fail_at) ==
    /\ status = "ok"
    /\ fail_at # 0 => failures < MaxFailures
    /\ \E S \in {work_loop(Ctx(fail_at), did_timeout)} : Returned(S)
    /\ paused' = (paused \/ did_timeout)

Next ==
    \/ \E element \in VTrees : Render(element)
    \/ \E did_timeout \in BOOLEAN, fail_at \in FailAt :
           WorkLoop(did_timeout, fail_at)

Spec == Init /\ [][Next]_vars

\* The caller of C18: it starts a render only when no pass is in progress,
\* its host fails no call, and it keeps calling work_loop, not always with
\* did_timeout set.
NextLive ==
    \/ \E element \in VTrees : wip_root = None /\ Render(element)
    \/ \E did_timeout \in BOOLEAN : WorkLoop(did_timeout, 0)

LiveSpec == Init /\ [][NextLive]_vars /\ WF_vars(WorkLoop(FALSE, 0))

\* ------------------------------------------------- reading the state back
\* The fibers from `first` on, following the sibling links.
RECURSIVE Chain(_, _)
Chain(fs, first) ==
    IF first = None THEN <<>> ELSE <<first>> \o Chain(fs, fs[first].sibling)

\* The fibers of the tree under f in pre-order, by child and sibling links.
RECURSIVE PreOrder(_, _), PreOrderAll(_, _)
PreOrder(fs, f) == <<f>> \o PreOrderAll(fs, fs[f].child)
PreOrderAll(fs, first) ==
    IF first = None THEN <<>>
    ELSE PreOrder(fs, first) \o PreOrderAll(fs, fs[first].sibling)

Range(seq) == { seq[i] : i \in DOMAIN seq }

\* The root of the pass in progress, or of the pass committed last.
PassRoot == IF wip_root # None THEN wip_root ELSE current_root

\* The fibers named by the trace events with the given op, in trace order.
FibersOf(tr, op) ==
    LET evs == SelectSeq(tr, LAMBDA ev : ev.op = op)
    IN  [i \in DOMAIN evs |-> evs[i].fiber]

HostCallOps ==
    {"createElement", "createTextNode", "setClassName", "setNodeValue",
     "appendChild", "appendChildFailed"}

HostCalls(tr) == SelectSeq(tr, LAMBDA ev : ev.op \in HostCallOps)

\* The host tree under node n, and the same shape for a virtual element.
RECURSIVE HostTree(_, _), HostForest(_, _)
HostTree(d, n) == [tag |-> d[n].tag, children |-> HostForest(d, d[n].children)]
HostForest(d, ns) ==
    IF ns = <<>> THEN <<>> ELSE <<HostTree(d, Head(ns))>> \o HostForest(d, Tail(ns))

RECURSIVE VShape(_), VShapes(_)
VShape(e) ==
    [tag |-> IF e.type = TEXT_ELEMENT THEN "#text" ELSE e.type,
     children |-> VShapes(e.children)]
VShapes(es) ==
    IF es = <<>> THEN <<>> ELSE <<VShape(Head(es))>> \o VShapes(Tail(es))

\* The host nodes attached beneath node n.
RECURSIVE Attached(_, _)
Attached(d, n) ==
    Range(d[n].children) \cup UNION { Attached(d, c) : c \in Range(d[n].children) }

\* The last work_loop call committed its pass and no render has begun since.
Committed == status = "ok" /\ wip_root = None /\ current_root # None

\* The pass has visited its last fiber (and may or may not have committed).
Traversed == status = "ok" /\ PassRoot # None /\ next_unit_of_work = None

\* ------------------------------------------------------------------ claims
\* C1: after every commit the host nodes beneath the container form exactly
\* the virtual tree given to the most recent render: same tags, nesting and
\* child order, and no host node left over from an earlier render.
C1_HostTreeIsVirtualTree ==
    Committed => HostForest(dom, dom[Container].children) = <<VShape(vtree[1])>>

\* C2: in one render pass perform_unit_of_work, called again and again from
\* the root, processes every fiber of the work-in-progress tree exactly once,
\* in pre-order, and returns None only after the last one, whatever yielding
\* work_loop calls come in between.
C2_PreOrderOnce ==
    Traversed => FibersOf(trace, "visit") = PreOrder(fibers, PassRoot)

C2_Witness ==
    /\ Traversed
    /\ FibersOf(trace, "visit") = PreOrder(fibers, PassRoot)
    /\ \E f \in Range(PreOrder(fibers, PassRoot)) :
           /\ fibers[f].child # None
           /\ fibers[f].sibling # None
           /\ fibers[fibers[f].child].child = None

\* The fibers whose reconcile_children call returned in this pass, the old
\* child chain each was reconciled against, and the chain it was given.
Reconciled == Range(FibersOf(trace, "reconciled"))
Visited == Range(FibersOf(trace, "visit"))
OldChain(w) ==
    IF fibers[w].alternate = None THEN <<>>
    ELSE Chain(fibers, fibers[fibers[w].alternate].child)
NewList(w) == fibers[w].element_children
NewChain(w) == Chain(fibers, fibers[w].child)

\* C3: reconcile_children on a fiber with n new children and an old chain of
\* at most n fibers gives it a chain of exactly n new fibers in new-list
\* order, each with the fiber as parent and the new child's type; position i
\* is an Update with alternate = old child i exactly when that old child
\* exists and has the same type, otherwise a Placement with no alternate.
C3_ReconcileGrowing ==
    \A w \in Reconciled :
        LET old == OldChain(w)
            new == NewList(w)
            kids == NewChain(w)
        IN  Len(old) <= Len(new) =>
            /\ Len(kids) = Len(new)
            /\ \A i \in 1..Len(new) :
                   /\ i <= Len(kids)
                   /\ kids[i] > PassRoot
                   /\ \A j \in 1..Len(kids) : kids[j] = kids[i] => j = i
                   /\ fibers[kids[i]].parent = w
                   /\ fibers[kids[i]].type = new[i].type
                   /\ IF i <= Len(old) /\ fibers[old[i]].type = new[i].type
                      THEN /\ fibers[kids[i]].effect_tag = "Update"
                           /\ fibers[kids[i]].alternate = old[i]
                      ELSE /\ fibers[kids[i]].effect_tag = "Placement"
                           /\ fibers[kids[i]].alternate = None

C3_Witness ==
    \E w \in Reconciled :
        /\ Len(OldChain(w)) >= 1
        /\ Len(NewList(w)) > Len(OldChain(w))
        /\ Len(NewChain(w)) = Len(NewList(w))
        /\ fibers[NewChain(w)[1]].effect_tag = "Update"
        /\ fibers[NewChain(w)[Len(NewList(w))]].effect_tag = "Placement"

\* C4: when the old child chain is longer than the new children list,
\* reconcile_children completes without failure: it creates a fiber for each
\* new-list position only and tags every old child beyond the list Deletion.
C4_ShrinkCompletes ==
    \A w \in Visited :
        LET old == OldChain(w)
            new == NewList(w)
        IN  Len(old) > Len(new) =>
            /\ w \in Reconciled
            /\ Len(NewChain(w)) = Len(new)
            /\ \A i \in (Len(new) + 1)..Len(old) :
                   fibers[old[i]].effect_tag = "Deletion"

\* The positions of w at which an old child exists and the types differ.
TypeChanges(w) ==
    { i \in 1..Len(NewList(w)) :
        /\ i <= Len(OldChain(w))
        /\ fibers[OldChain(w)[i]].type # NewList(w)[i].type }

\* C5: at every position where an old child exists and the new child's type
\* differs, reconciliation sets exactly one Deletion, on the old fiber, and
\* one Placement, on the new fiber, never an Update; the new fiber has no
\* alternate and does not take over the old fiber's host node.
C5_TypeChangeRemounts ==
    \A w \in Reconciled :
        \A i \in TypeChanges(w) :
            LET o == OldChain(w)[i] IN
            /\ fibers[o].effect_tag = "Deletion"
            /\ Len(SelectSeq(trace, LAMBDA ev : ev.op = "tagDeletion" /\ ev.fiber = o)) = 1
            /\ i <= Len(NewChain(w))
            /\ fibers[NewChain(w)[i]].effect_tag = "Placement"
            /\ fibers[NewChain(w)[i]].alternate = None
            /\ fibers[NewChain(w)[i]].dom_node # fibers[o].dom_node

C5_Witness ==
    /\ Committed
    /\ \E w \in Reconciled :
           \E i \in TypeChanges(w) :
               /\ i <= Len(NewChain(w))
               /\ fibers[NewChain(w)[i]].dom_node # None
               /\ fibers[OldChain(w)[i]].dom_node # None
               /\ fibers[OldChain(w)[i]].child # None

\* C6: every old fiber tagged Deletion during a pass has its host node
\* removed by that pass's commit: afterwards the node is not attached beneath
\* the container and the fiber is not reachable from current_root.
C6_DeletedHostNodeRemoved ==
    Committed =>
        \A o \in Range(FibersOf(trace, "tagDeletion")) :
            /\ fibers[o].dom_node \notin Attached(dom, Container)
            /\ o \notin Range(PreOrder(fibers, current_root))

CreateOps == {"createElement", "createTextNode"}

FibersOfOps(tr, ops) ==
    LET evs == SelectSeq(tr, LAMBDA ev : ev.op \in ops)
    IN  [i \in DOMAIN evs |-> evs[i].fiber]

\* A first render: no committed tree before it, and no host failure so far.
InitialMount == Committed /\ baseline_root = None /\ failures = 0

\* C7: rendering a tree of N virtual nodes into an empty container with no
\* committed tree yields exactly N fibers tagged Placement, N host-node
\* creations during traversal and N append_child calls at commit, the
\* creations and the appends each in pre-order of the tree.
C7_InitialMount ==
    InitialMount =>
        LET made == Tail(PreOrder(fibers, current_root)) IN
        /\ Len(made) = Size(vtree[1])
        /\ \A i \in DOMAIN made : fibers[made[i]].effect_tag = "Placement"
        /\ FibersOfOps(trace, CreateOps) = made
        /\ FibersOf(trace, "appendChild") = made
        /\ \A i, j \in DOMAIN trace :
               trace[i].op \in CreateOps /\ trace[j].op = "commit" => i < j
        /\ \A i, j \in DOMAIN trace :
               trace[i].op = "appendChild" /\ trace[j].op = "commit" => j < i

C7_Witness ==
    /\ InitialMount
    /\ Size(vtree[1]) = MaxNodes
    /\ \E f \in Range(PreOrder(fibers, current_root)) :
           fibers[f].child # None /\ fibers[f].sibling # None

\* C8: rendering and committing the same virtual tree twice in succession
\* makes no host call at all during the second pass: no append, no removal,
\* no class or text patch, and no host-node creation.
C8_SameTreeNoHostCalls ==
    Committed /\ baseline_vtree # <<>> /\ baseline_vtree = vtree =>
        HostCalls(trace) = <<>>

C8_Witness ==
    /\ Committed
    /\ baseline_vtree # <<>>
    /\ baseline_vtree = vtree
    /\ Size(vtree[1]) >= 3
    /\ HostCalls(trace) = <<>>

\* How many text nodes of two virtual trees differ in their value, or -1 when
\* the trees differ in anything else.
RECURSIVE TextDiffs(_, _), TextDiffsAll(_, _)
TextDiffs(a, b) ==
    IF a.type # b.type \/ Len(a.children) # Len(b.children) THEN -1
    ELSE LET own == IF a.props = b.props THEN 0
                    ELSE IF /\ a.type = TEXT_ELEMENT
                            /\ a.props # <<>> /\ b.props # <<>>
                            /\ a.props[1].class_name = b.props[1].class_name
                            /\ a.props[1].node_value # <<>>
                            /\ b.props[1].node_value # <<>>
                         THEN 1 ELSE -1
             rest == TextDiffsAll(a.children, b.children)
         IN  IF own < 0 \/ rest < 0 THEN -1 ELSE own + rest
TextDiffsAll(as, bs) ==
    IF as = <<>> THEN 0
    ELSE LET h == TextDiffs(Head(as), Head(bs))
             t == TextDiffsAll(Tail(as), Tail(bs))
         IN  IF h < 0 \/ t < 0 THEN -1 ELSE h + t

\* C9: given two successive committed renders that differ only in the value
\* of one text node, the effects of the second pass are exactly one Update,
\* on that text fiber, and no Placement and no Deletion.
C9_OneTextUpdate ==
    Committed /\ baseline_vtree # <<>> /\ TextDiffs(baseline_vtree[1], vtree[1]) = 1 =>
        LET made == Tail(PreOrder(fibers, current_root))
            updates == { i \in DOMAIN made : fibers[made[i]].effect_tag = "Update" }
        IN  /\ Cardinality(updates) = 1
            /\ \A i \in updates : fibers[made[i]].type = TEXT_ELEMENT
            /\ \A i \in DOMAIN made : fibers[made[i]].effect_tag # "Placement"
            /\ FibersOf(trace, "tagDeletion") = <<>>

CommitCount(tr) == Len(SelectSeq(tr, LAMBDA ev : ev.op = "commit"))

\* Every commit-phase event of the trace comes after the visit of every fiber
\* of the pass.
C10_NoEarlyCommit ==
    PassRoot # None =>
        \A i \in DOMAIN trace :
            trace[i].op \in {"commit", "appendChild", "appendChildFailed"} =>
                Range(PreOrder(fibers, PassRoot)) \subseteq
                    Range(FibersOf(SubSeq(trace, 1, i), "visit"))

C10_Step ==
    /\ CommitCount(trace') > CommitCount(trace) =>
           wip_root # None /\ next_unit_of_work' = None
    /\ next_unit_of_work # None /\ next_unit_of_work' = None /\ status' = "ok" =>
           CommitCount(trace') > CommitCount(trace)
    /\ current_root' # current_root =>
           /\ CommitCount(trace') > CommitCount(trace)
           /\ current_root' = wip_root
           /\ wip_root' = None
           /\ next_unit_of_work' = None
    /\ CommitCount(trace') > CommitCount(trace) /\ result' = "Ok" =>
           current_root' = wip_root /\ wip_root' = None

\* C10: work_loop commits only in a call at whose end next_unit_of_work is
\* None and a wip_root exists, and inside that same call; after a successful
\* commit current_root is the former wip_root and wip_root and
\* next_unit_of_work are None; no commit effect reaches the host while a
\* fiber of the pass is still unprocessed.
C10_CommitAfterTraversal ==
    [](C10_NoEarlyCommit) /\ [][C10_Step]_vars

C10_Witness ==
    /\ Committed
    /\ result = "Ok"
    /\ Len(FibersOf(trace, "visit")) >= 4
    /\ Len(FibersOf(trace, "appendChild")) >= 2

\* No commit and no host call of the trace is made for an abandoned fiber,
\* and no abandoned fiber is part of the committed or work-in-progress tree.
C11_AbandonedUntouched ==
    /\ \A i \in DOMAIN trace :
           trace[i].op \in HostCallOps \cup {"commit"} =>
               trace[i].fiber \notin abandoned
    /\ current_root # None =>
           abandoned \cap TreeFibers(fibers, current_root) = {}
    /\ wip_root # None =>
           /\ abandoned \cap TreeFibers(fibers, wip_root) = {}
           /\ fibers[wip_root].alternate \notin abandoned

\* A render step (the only step that leaves result' = "none"): the Context
\* is given a new work-in-progress root.
C11_RenderStep ==
    result' = "none" =>
        /\ wip_root' # None
        /\ next_unit_of_work' = wip_root'
        /\ wip_root' \notin abandoned'
        /\ wip_root # None /\ fibers[wip_root].child # None =>
               TreeFibers(fibers, wip_root) \subseteq abandoned'
        /\ current_root' = current_root
        /\ fibers'[wip_root'].alternate = current_root
        /\ fibers'[wip_root'].child = None

\* C11: render while an earlier pass has not committed discards that pass:
\* wip_root and next_unit_of_work are the new root, current_root is
\* unchanged, the new root's alternate is current_root and never the
\* abandoned root, and no later work_loop call commits a fiber of the
\* abandoned tree or makes a host call for one.
C11_RenderDiscardsPass ==
    [](C11_AbandonedUntouched) /\ [][C11_RenderStep]_vars

\* A pass replaced after its commit failed, and the next pass committed.
C11_Witness ==
    /\ Committed
    /\ \E a \in abandoned :
           /\ fibers[a].effect_tag = "Placement"
           /\ fibers[a].dom_node \in Attached(dom, Container)
    /\ Len(FibersOf(trace, "appendChild")) >= 1

\* The events of the trace from the last commit event on.
CommitEvents(tr) ==
    LET starts == { i \in DOMAIN tr : tr[i].op = "commit" }
    IN  IF starts = {} THEN <<>>
        ELSE SubSeq(tr, CHOOSE i \in starts : \A j \in starts : j <= i, Len(tr))

\* C12: when a host call fails during commit, the commit stops at that call,
\* the host mutations applied earlier in that commit remain applied, and the
\* caller of that exported work_loop call is given an error outcome.
C12_FailureReported ==
    result = "Err" =>
        LET evs == CommitEvents(trace) IN
        /\ evs # <<>>
        /\ evs[Len(evs)].op = "appendChildFailed"
        /\ \A i \in 1..(Len(evs) - 1) :
               /\ evs[i].op # "appendChildFailed"
               /\ evs[i].op = "appendChild" =>
                      /\ dom[evs[i].node].parent = evs[i].parent
                      /\ evs[i].node \in Range(dom[evs[i].parent].children)
        /\ wip_root # None
        /\ returned = "Err"

\* The fiber lacks an attribute its kind is expected to carry.
MissingAttribute(fiber) ==
    \/ fiber.props = <<>>
    \/ is_text_fiber(fiber) /\ fiber.props[1].node_value = <<>>
    \/ ~is_text_fiber(fiber) /\ fiber.props[1].class_name = <<>>

\* Host-node creation completed for every visited fiber lacking an attribute.
C13_CreationCompletes ==
    \A w \in Visited : MissingAttribute(fibers[w]) => fibers[w].dom_node # None

\* A commit that began did not panic (the Update arm is the only place of the
\* commit that can).
C13_UpdateCompletes ==
    CommitCount(trace) > 0 => status = "ok"

\* C13: a fiber whose expected attribute is missing (a text fiber without a
\* value, an element without a class, a fiber without props) causes no
\* failure in any phase: host-node creation in perform_unit_of_work and the
\* Update arm of commit_work both complete, and no host call is made for the
\* missing field.
C13_MissingAttributeIsNoOp ==
    /\ C13_CreationCompletes
    /\ C13_UpdateCompletes
    /\ \A i \in DOMAIN trace :
           trace[i].op \in {"setClassName", "setNodeValue"} =>
               ~MissingAttribute(fibers[trace[i].fiber])

\* The events of the trace before the first commit event.
BeforeCommit(tr) ==
    LET starts == { i \in DOMAIN tr : tr[i].op = "commit" }
    IN  IF starts = {} THEN tr
        ELSE SubSeq(tr, 1, (CHOOSE i \in starts : \A j \in starts : i <= j) - 1)

\* C14: before the commit of a pass begins no host call changes the tree
\* attached beneath the container: the host calls of the traversal are
\* creations of new host nodes and attribute settings on a node created in
\* this pass and still unattached; there is no append_child and no patch of
\* an attached node or of a node inherited from the committed tree.
C14_TraversalLeavesHostTree ==
    LET evs == BeforeCommit(trace) IN
    \A i \in DOMAIN evs :
        evs[i].op \in HostCallOps =>
            \/ /\ evs[i].op \in CreateOps
               /\ \A j \in 1..(i - 1) : evs[j].node # evs[i].node
               /\ baseline_root # None =>
                      \A o \in TreeFibers(fibers, baseline_root) :
                          fibers[o].dom_node # evs[i].node
            \/ /\ evs[i].op \in {"setClassName", "setNodeValue"}
               /\ evs[i].parent = None
               /\ \E j \in 1..(i - 1) :
                      evs[j].op \in CreateOps /\ evs[j].node = evs[i].node

\* A pass over a committed tree that created a host node with a class during
\* the traversal and patched an inherited host node in its commit.
C14_Witness ==
    /\ Committed
    /\ baseline_root # None
    /\ \E i \in DOMAIN BeforeCommit(trace) : BeforeCommit(trace)[i].op = "setClassName"
    /\ \E i \in DOMAIN CommitEvents(trace) :
           /\ CommitEvents(trace)[i].op = "setClassName"
           /\ CommitEvents(trace)[i].parent # None

\* What a call leaves behind: the Context, the two arenas and the trace.
Outcome(S) ==
    <<S.fibers, S.dom, S.wip_root, S.current_root, S.next_unit_of_work, S.trace>>

\* The pass has committed and the host failed none of its calls.
RanToCommit ==
    /\ Committed
    /\ \A i \in DOMAIN trace : trace[i].op # "appendChildFailed"

\* C15: the outcome of a pass does not depend on how it is sliced: whatever
\* yielding and non-yielding work_loop calls ran it to commit, the fibers
\* were processed in the same order, the same host calls were made in the
\* same order and the same state was reached as by a single uninterrupted
\* work_loop call made right after the render.
C15_SlicingIndependent ==
    RanToCommit =>
        Outcome(Ctx(0)) = Outcome(work_loop(pass_start, FALSE))

\* A pass run to commit with yielding calls in between, over a committed tree.
C15_Witness ==
    /\ RanToCommit
    /\ paused
    /\ baseline_root # None
    /\ Len(HostCalls(trace)) >= 2
    /\ Len(FibersOf(trace, "visit")) >= 4

\* The attribute an Update compares: the class of an element, the value of a
\* text node; <<>> when the props or the field are absent.
Field(fiber) ==
    IF fiber.props = <<>> THEN <<>>
    ELSE IF is_text_fiber(fiber) THEN fiber.props[1].node_value
         ELSE fiber.props[1].class_name

HostField(node) ==
    IF node.kind = "Text" THEN node.node_value ELSE node.class_name

\* The patch calls the last commit made for fiber f.
Patches(f) ==
    SelectSeq(CommitEvents(trace),
              LAMBDA ev : ev.fiber = f /\ ev.op \in {"setClassName", "setNodeValue"})

\* The fibers of the committed tree tagged Update.
Updated ==
    { f \in TreeFibers(fibers, current_root) : fibers[f].effect_tag = "Update" }

\* C16 for the fields whose new value is present.
C16_PresentFieldPatched ==
    Committed =>
        \A f \in Updated :
            Field(fibers[f]) # <<>> =>
                IF Field(fibers[f]) # Field(fibers[fibers[f].alternate])
                THEN /\ Len(Patches(f)) = 1
                     /\ Patches(f)[1].node = fibers[f].dom_node
                     /\ HostField(dom[fibers[f].dom_node]) = Field(fibers[f])
                ELSE Patches(f) = <<>>

\* C16: at commit, for a fiber tagged Update, each field (the class of an
\* element, the value of a text node) that differs between the fiber and
\* its alternate, changed, newly added or removed, gets exactly one patch
\* call that brings the host node to the new value; a field that is the
\* same gets no host call.
C16_UpdatePatchesDifferences ==
    Committed =>
        \A f \in Updated :
            IF Field(fibers[f]) # Field(fibers[fibers[f].alternate])
            THEN /\ Len(Patches(f)) = 1
                 /\ Patches(f)[1].node = fibers[f].dom_node
                 /\ HostField(dom[fibers[f].dom_node]) = Field(fibers[f])
            ELSE Patches(f) = <<>>

\* C17: every fiber of the work-in-progress tree that has an alternate has it
\* in the last committed tree (the tree under current_root when the pass
\* started), never in the work-in-progress tree itself; and every fiber
\* tagged Update holds the same host node as its alternate.
C17_AlternateInCommittedTree ==
    /\ wip_root # None =>
           \A f \in TreeFibers(fibers, wip_root) :
               fibers[f].alternate # None =>
                   /\ baseline_root # None
                   /\ baseline_root = current_root
                   /\ fibers[f].alternate \in TreeFibers(fibers, baseline_root)
                   /\ fibers[f].alternate \notin TreeFibers(fibers, wip_root)
    /\ \A f \in DOMAIN fibers :
           fibers[f].effect_tag = "Update" =>
               /\ fibers[f].alternate # None
               /\ fibers[f].dom_node # None
               /\ fibers[f].dom_node = fibers[fibers[f].alternate].dom_node

\* A work-in-progress tree, built over a committed tree, with Update and
\* Placement fibers in it.
C17_Witness ==
    /\ status = "ok"
    /\ wip_root # None
    /\ \E f, g \in TreeFibers(fibers, wip_root) :
           /\ fibers[f].effect_tag = "Update"
           /\ fibers[f].alternate \in TreeFibers(fibers, current_root)
           /\ fibers[g].effect_tag = "Placement"
           /\ fibers[g].dom_node # None

\* Every pass is eventually committed, or its work_loop call panics.
C18_CommitsUnlessPanic ==
    \A r \in 1..MaxFibers :
        (wip_root = r) ~>
            \/ wip_root = None /\ current_root = r
            \/ status = "panicked"

\* C18: after a render of any virtual tree, if the caller keeps calling
\* work_loop, not with did_timeout set forever, and there is no new render
\* and no host failure, the pass is eventually committed: wip_root is None
\* and current_root is the root of that pass.
C18_EventuallyCommitted ==
    \A r \in 1..MaxFibers :
        (wip_root = r) ~> (wip_root = None /\ current_root = r)

\* C19: in every state between calls, if next_unit_of_work is present then
\* wip_root is present and next_unit_of_work is a fiber of the tree under
\* wip_root (the root or reachable from it by child and sibling links); it
\* is never a fiber of the committed tree or of an abandoned pass.
C19_NextUnitInWipTree ==
    next_unit_of_work # None =>
        /\ wip_root # None
        /\ next_unit_of_work \in TreeFibers(fibers, wip_root)
        /\ current_root # None =>
               next_unit_of_work \notin TreeFibers(fibers, current_root)
        /\ next_unit_of_work \notin abandoned

\* A pass waiting to be resumed while a committed tree and an abandoned pass
\* exist.
C19_Witness ==
    /\ status = "ok"
    /\ next_unit_of_work # None
    /\ paused
    /\ current_root # None
    /\ fibers[current_root].child # None
    /\ abandoned # {}

\* The fields of a fiber other than its effect tag.
Structure(fiber) ==
    <<fiber.type, fiber.props, fiber.element_children, fiber.parent,
      fiber.child, fiber.sibling, fiber.dom_node, fiber.alternate>>

\* A step that does not commit: current_root exists and stays.
NoCommitStep == current_root # None /\ current_root' = current_root

\* C20: a pass leaves the committed tree intact until commit: while it is in
\* progress, and if it is abandoned, no fiber reachable from current_root
\* has its type, props, parent, child, sibling or host node changed, nor
\* its effect tag.
C20_CommittedTreeIntact ==
    [][NoCommitStep =>
          \A f \in TreeFibers(fibers, current_root) : fibers'[f] = fibers[f]]_vars

\* C20 as the code has it: until commit no fiber reachable from current_root
\* has its type, props, parent, child, sibling or host node changed; the
\* one change a pass makes to such a fiber is to set its effect tag to
\* Deletion, when reconcile_children finds a new child of another type at
\* its position.
C20_CommittedTreeStructureKept ==
    [][NoCommitStep =>
          \A f \in TreeFibers(fibers, current_root) :
              /\ Structure(fibers'[f]) = Structure(fibers[f])
              /\ fibers'[f].effect_tag # fibers[f].effect_tag =>
                     /\ fibers'[f].effect_tag = "Deletion"
                     /\ f \in Range(FibersOf(trace', "tagDeletion"))]_vars

\* A pass built over a committed tree and not committed, which tagged a
\* fiber of the committed tree Deletion.
C20_Witness ==
    /\ status = "ok"
    /\ wip_root # None
    /\ fibers[wip_root].child # None
    /\ current_root # None
    /\ \E f \in TreeFibers(fibers, current_root) :
           /\ fibers[f].effect_tag = "Deletion"
           /\ f \in Range(FibersOf(trace, "tagDeletion"))
           /\ fibers[f].dom_node # None

\* The events of the trace from the first commit event on: every commit
\* attempt of the pass.
FromFirstCommit(tr) ==
    SubSeq(tr, Len(BeforeCommit(tr)) + 1, Len(tr))

\* How often the commits of the pass issued the host call `op` for fiber f.
Issued(f, ops) ==
    Len(SelectSeq(FromFirstCommit(trace),
                  LAMBDA ev : ev.fiber = f /\ ev.op \in ops))

\* No append is issued twice for a fiber.
C21_AppendOnce ==
    \A f \in DOMAIN fibers : Issued(f, {"appendChild"}) <= 1

\* No Update patch is issued twice for a fiber.
C21_PatchOnce ==
    \A f \in DOMAIN fibers : Issued(f, {"setClassName", "setNodeValue"}) <= 1

\* After a successful commit, further work_loop calls issue nothing.
C21_NothingAfterSuccess ==
    [][wip_root = None /\ current_root # None /\ trace' # <<>> =>
          HostCalls(trace') = HostCalls(trace)]_vars

\* C21: the effects of one pass are applied to the host at most once: over
\* all the work_loop calls that follow one render, those after a successful
\* commit and those after a commit that stopped on a host failure included,
\* no fiber's append and no fiber's Update patch is issued a second time.
C21_EffectsAppliedOnce ==
    C21_AppendOnce /\ C21_PatchOnce

====
